---- MODULE Spec2Model ----
(***************************************************************************)
(* A model of the NoDL (node interface description) tooling:               *)
(*   - nodl.types._types        the interface model and Node.__iadd__      *)
(*   - ros2nodl.api.api         show_nodl_parsed, the multi-file merge fold*)
(*   - nodl.nodl_parse          parse_nodl_file and Interface_v1           *)
(*   - nodl._parsing._parsing   _parse_interface                           *)
(* Python dicts are modelled as sequences of <<key, value>> pairs in       *)
(* insertion order; Python objects that are aliased live in a heap.        *)
(***************************************************************************)
EXTENDS Integers, Sequences, FiniteSets, TLC

VARIABLES
    \* ---- Node.__iadd__ applied to a pair of nodes
    self,        \* the left operand (mutated in place)
    other,       \* the right operand
    self0,       \* the left operand as it was before the call
    iadd_pc,     \* "call" before the call, "returned" or "raised" after
    iadd_exc,    \* the exception raised by the call, or None
    \* ---- show_nodl_parsed(paths=paths)
    paths,       \* the argument: a list of paths
    files,       \* what each file declares: path -> list of Node values
    node_lists,  \* dict path -> list of references to the parsed Node objects
    heap,        \* the Node objects: reference -> Node value
    combined,    \* dict component name -> _NodeWithOrigin, or None
    node,        \* the loop variable node: a reference, or Unbound
    done,        \* the number of loop iterations completed
    pc,          \* "start", "fold", "done"
    ret,         \* None while running, then the value returned or exception raised
    stdout,      \* what pprint.pprint printed
    stderr,      \* what _report_merge_error printed
    merge_exc,   \* the NodeMergeConflictError caught by the fold, or None
    \* ---- the version gate: nodl_parse.parse_nodl_file and _parsing._parse_interface
    tree,        \* the element tree of a document: its root and the root's children
    file_res,    \* outcome of parse_nodl_file on the tree, None before the call
    iface_res,   \* outcome of _parse_interface on the root, None before the call
    \* ---- Interface_v1.parse_node
    element,     \* the node element: its attributes and its children
    node_res,    \* outcome of parse_node on the element, None before the call
    calls,       \* the outcome of each parse_<kind>(child) call that parse_node made
    warned,      \* the warnings.warn calls made, in order
    \* ---- _parsing._parse_element_tree
    error_log,   \* the error log of the schema validation of the tree, empty when valid
    tree_res,    \* outcome of _parse_element_tree on the tree, None before the call
    \* ---- nodl._index and ros2nodl.api: the discovery of .nodl.xml files
    fs_tree,     \* the files below the scanned directory: a set of paths
    pkg_found,   \* whether the ament index knows the package
    yielded,     \* the matches in the order the file system yielded them
    nodl_paths,  \* result of get_nodl_xml_files_in_path, None before the call
    share_res,   \* outcome of nodl._index.get_nodl_files_from_package_share
    api_share_res, \* outcome of ros2nodl.api.get_nodl_files_from_package_share
    \* ---- the verbs: ValidateVerb.main and ShowVerb.main
    args,        \* the parsed command line: file, all, raw
    share,       \* what looking up the package's descriptor files yields
    parse_of,    \* what parse_nodl yields for each file of the package
    validate_res, \* outcome of ValidateVerb.main, None before the call
    show_res,    \* outcome of ShowVerb.main, None before the call
    \* ---- NoDLInterface.__eq__ applied to a pair of entries
    entry_a,     \* the left operand of ==
    entry_b,     \* the right operand of ==
    a_eq_b,      \* the value of entry_a == entry_b, None before it is evaluated
    b_eq_a       \* the value of entry_b == entry_a, None before it is evaluated

varsIadd == <<self, other, self0, iadd_pc, iadd_exc>>

varsMerge == <<paths, files, node_lists, heap, combined, node, done, pc, ret,
               stdout, stderr, merge_exc>>

varsVersion == <<tree, file_res, iface_res, error_log, tree_res>>

varsNode == <<element, node_res, calls, warned>>

varsIndex == <<fs_tree, pkg_found, yielded, nodl_paths, share_res, api_share_res>>

varsVerb == <<args, share, parse_of, validate_res, show_res>>

varsEq == <<entry_a, entry_b, a_eq_b, b_eq_a>>

vars == <<varsIadd, varsMerge, varsVersion, varsNode, varsIndex, varsVerb, varsEq>>

\* Python's None.  A record, so that it compares (unequal) with every record.
None == [none |-> TRUE]

\* A local variable that has not been assigned.
Unbound == [unbound |-> TRUE]

\* The state of an operation that a specification does not exercise.
IdleEq ==
    /\ entry_a = None
    /\ entry_b = None
    /\ a_eq_b = None
    /\ b_eq_a = None

IdleIadd ==
    /\ self = None
    /\ other = None
    /\ self0 = None
    /\ iadd_pc = "idle"
    /\ iadd_exc = None

IdleVersion ==
    /\ tree = None
    /\ file_res = None
    /\ iface_res = None
    /\ error_log = <<>>
    /\ tree_res = None

IdleIndex ==
    /\ fs_tree = {}
    /\ pkg_found = FALSE
    /\ yielded = <<>>
    /\ nodl_paths = None
    /\ share_res = None
    /\ api_share_res = None

IdleVerb ==
    /\ args = None
    /\ share = None
    /\ parse_of = <<>>
    /\ validate_res = None
    /\ show_res = None

IdleNode ==
    /\ element = None
    /\ node_res = None
    /\ calls = <<>>
    /\ warned = <<>>

IdleMerge ==
    /\ paths = <<>>
    /\ files = <<>>
    /\ node_lists = <<>>
    /\ heap = <<>>
    /\ combined = <<>>
    /\ node = Unbound
    /\ done = 0
    /\ pc = "idle"
    /\ ret = None
    /\ stdout = <<>>
    /\ stderr = <<>>
    /\ merge_exc = None

(***************************************************************************)
(* Python dict, insertion ordered: a sequence of <<key, value>> pairs with *)
(* pairwise distinct keys.                                                 *)
(***************************************************************************)
Keys(d) == {d[k][1] : k \in DOMAIN d}

Has(d, key) == key \in Keys(d)

Get(d, key) == d[CHOOSE k \in DOMAIN d : d[k][1] = key][2]

\* d[key] = value: replaces the value in place when the key is present,
\* appends the pair otherwise.
Set(d, key, value) ==
    IF Has(d, key)
    THEN [k \in DOMAIN d |-> IF d[k][1] = key THEN <<key, value>> ELSE d[k]]
    ELSE Append(d, <<key, value>>)

\* The dict as a mapping, forgetting the insertion order.
AsMap(d) == [key \in Keys(d) |-> Get(d, key)]

\* {x.name: x for x in xs}: a later duplicate overwrites the earlier value.
RECURSIVE DictByName(_)
DictByName(xs) ==
    IF xs = <<>> THEN <<>>
    ELSE LET front == DictByName(SubSeq(xs, 1, Len(xs) - 1))
             x     == xs[Len(xs)]
         IN  Set(front, x.dict.name, x)

(***************************************************************************)
(* The interface model.  An object is its class and its __dict__.          *)
(***************************************************************************)
Action(name, action_type, server, client, qos) ==
    [cls  |-> "Action",
     dict |-> [name |-> name, type |-> action_type, server |-> server,
               client |-> client, qos |-> qos]]

Parameter(name, parameter_type) ==
    [cls  |-> "Parameter",
     dict |-> [name |-> name, type |-> parameter_type]]

Service(name, service_type, server, client, qos) ==
    [cls  |-> "Service",
     dict |-> [name |-> name, type |-> service_type, server |-> server,
               client |-> client, qos |-> qos]]

Topic(name, message_type, publisher, subscription, qos) ==
    [cls  |-> "Topic",
     dict |-> [name |-> name, type |-> message_type, publisher |-> publisher,
               subscription |-> subscription, qos |-> qos]]

\* isinstance(obj, cls): the four entry classes derive directly from
\* NoDLInterface and from nothing else.
IsInstance(obj, cls) == obj.cls = cls \/ cls = "NoDLInterface"

\* An equality that looks at the name and the type only.
InterfaceEqNameAndType(a, b) ==
    /\ IsInstance(b, a.cls) \/ IsInstance(a, b.cls)
    /\ a.dict.name = b.dict.name
    /\ a.dict.type = b.dict.type

\* Object identity in place of __eq__: two distinct objects are never equal.
InterfaceEqIdentity(a, b) == FALSE

\* An equality that compares the __dict__ of the operands and not their classes.
InterfaceEqDictOnly(a, b) == a.dict = b.dict

\* NoDLInterface.__eq__
InterfaceEq(a, b) ==
    /\ IsInstance(b, a.cls) \/ IsInstance(a, b.cls)
    /\ a.dict = b.dict

\* Node.__init__
Node(name, actions, parameters, services, topics) ==
    [name       |-> name,
     actions    |-> DictByName(actions),
     parameters |-> DictByName(parameters),
     services   |-> DictByName(services),
     topics     |-> DictByName(topics)]

\* The order in which Node.__iadd__ walks the four mappings.
InterfaceTypes == <<"actions", "parameters", "services", "topics">>

\* NodeMergeConflictError(node_a, node_b, interface_a, interface_b); the
\* message is 'Could not merge node {node_a.name}: Conflict between ...'.
NodeMergeConflictError(node_a, node_b, interface_a, interface_b) ==
    [exc         |-> "NodeMergeConflictError",
     name        |-> node_a.name,
     node_a      |-> node_a,
     node_b      |-> node_b,
     interface_a |-> interface_a,
     interface_b |-> interface_b]

(***************************************************************************)
(* Node.__iadd__.  IaddFrom(s, o, t, k) runs the two nested loops from     *)
(* mapping number t, item number k of other's mapping, with s the current  *)
(* value of self.  The result is self as the call leaves it and the        *)
(* exception raised (None when the call returns).                          *)
(***************************************************************************)
IaddConflicts(s, interface_type, name, interface) ==
    /\ Has(s[interface_type], name)
    /\ ~InterfaceEq(Get(s[interface_type], name), interface)

\* The assignment nested under `if name in ...`: only present names are stored.
IaddStoreIfPresent(s, interface_type, name, interface) ==
    IF Has(s[interface_type], name)
    THEN [s EXCEPT ![interface_type] = Set(s[interface_type], name, interface)]
    ELSE s

IaddStore(s, interface_type, name, interface) ==
    [s EXCEPT ![interface_type] = Set(s[interface_type], name, interface)]

RECURSIVE IaddFrom(_, _, _, _)
IaddFrom(s, o, t, k) ==
    IF t > Len(InterfaceTypes) THEN [node |-> s, exc |-> None]
    ELSE LET interface_type == InterfaceTypes[t]
             items          == o[interface_type]
         IN  IF k > Len(items) THEN IaddFrom(s, o, t + 1, 1)
             ELSE LET name      == items[k][1]
                      interface == items[k][2]
                  IN  IF IaddConflicts(s, interface_type, name, interface)
                      THEN [node |-> s,
                            exc  |-> NodeMergeConflictError(
                                         s, o, Get(s[interface_type], name), interface)]
                      ELSE IaddFrom(IaddStore(s, interface_type, name, interface),
                                    o, t, k + 1)

Iadd(s, o) == IaddFrom(s, o, 1, 1)

(***************************************************************************)
(* Node.__iadd__ on a pair of nodes.  The operands are built with the      *)
(* constructors from small pools of entries in which every field that      *)
(* takes part in equality (type, a role flag, qos) varies.                 *)
(***************************************************************************)
MaxEntries == 2

ActionPool ==
    {Action("foo", "T1", FALSE, FALSE, "ACTION_STATUS_DEFAULT"),
     Action("foo", "T2", FALSE, FALSE, "ACTION_STATUS_DEFAULT"),
     Action("foo", "T1", TRUE, FALSE, "ACTION_STATUS_DEFAULT"),
     Action("baz", "T1", FALSE, FALSE, "ACTION_STATUS_DEFAULT")}

ParameterPool == {Parameter("p", "T1"), Parameter("p", "T2")}

ServicePool ==
    {Service("srv", "T1", TRUE, FALSE, "SERVICES_DEFAULT"),
     Service("srv", "T1", TRUE, TRUE, "SERVICES_DEFAULT")}

TopicPool ==
    {Topic("bar", "T1", TRUE, FALSE, "SYSTEM_DEFAULT"),
     Topic("bar", "T1", TRUE, FALSE, "SENSOR_DATA")}

\* The argument lists of at most MaxEntries entries with distinct names.
EntryLists(pool) ==
    UNION {{xs \in [1..n -> pool] :
               \A a, b \in 1..n : a # b => xs[a].dict.name # xs[b].dict.name} :
           n \in 0..MaxEntries}

NodePool(name) ==
    {Node(name, actions, parameters, services, topics) :
        actions \in EntryLists(ActionPool), parameters \in EntryLists(ParameterPool),
        services \in EntryLists(ServicePool), topics \in EntryLists(TopicPool)}

InitIadd ==
    /\ IdleEq
    /\ IdleMerge
    /\ IdleVersion
    /\ IdleNode
    /\ IdleIndex
    /\ IdleVerb
    /\ self \in NodePool("X")
    /\ other \in NodePool("X")
    /\ self0 = self
    /\ iadd_pc = "call"
    /\ iadd_exc = None

\* self += other
NodeIadd ==
    /\ iadd_pc = "call"
    /\ LET r == Iadd(self, other)
       IN  /\ self' = r.node
           /\ iadd_exc' = r.exc
           /\ iadd_pc' = IF r.exc = None THEN "returned" ELSE "raised"
    /\ UNCHANGED <<other, self0>>
    /\ UNCHANGED <<varsMerge, varsVersion, varsNode, varsIndex, varsVerb, varsEq>>

NextIadd == NodeIadd

SpecIadd == InitIadd /\ [][NextIadd]_vars

(***************************************************************************)
(* show_nodl_parsed: parse every path, fold the nodes of all files into    *)
(* `combined` keyed by node name, print.                                   *)
(***************************************************************************)
\* qos_to_dict is not interpreted here: the dict form of a qos profile.
QosToDict(qos) == <<"qos_to_dict", qos>>

\* NoDLData._as_dict: a copy of __dict__ with qos, when present, as a dict.
InterfaceAsDict(x) ==
    IF "qos" \in DOMAIN x.dict
    THEN [x.dict EXCEPT !.qos = QosToDict(x.dict.qos)]
    ELSE x.dict

\* [x._as_dict for x in d.values()]
ValuesAsDicts(d) == [k \in DOMAIN d |-> InterfaceAsDict(d[k][2])]

\* Node._as_dict
NodeAsDict(n) ==
    [name       |-> n.name,
     actions    |-> ValuesAsDicts(n.actions),
     parameters |-> ValuesAsDicts(n.parameters),
     services   |-> ValuesAsDicts(n.services),
     topics     |-> ValuesAsDicts(n.topics)]

\* _NodeWithOrigin.__init__
NodeWithOrigin(origin_paths, node_ref) == [paths |-> origin_paths, node |-> node_ref]

\* The reference to the n-th Node object that parsing `path` returned.
Ref(path, n) == <<path, n>>

\* {path: parse_nodl(path) for path in paths}: one key per distinct path, in
\* the order of first occurrence.
RECURSIVE ParseAll(_, _)
ParseAll(ps, fs) ==
    IF ps = <<>> THEN <<>>
    ELSE LET front == ParseAll(SubSeq(ps, 1, Len(ps) - 1), fs)
             path  == ps[Len(ps)]
         IN  Set(front, path, [n \in 1..Len(fs[path]) |-> Ref(path, n)])

\* The Node objects that the parse created.
ParsedHeap(ps, fs) ==
    [r \in UNION {{Ref(ps[k], n) : n \in 1..Len(fs[ps[k]])} : k \in DOMAIN ps}
       |-> fs[r[1]][r[2]]]

\* for path, node_list in node_lists.items(): for node in node_list:
\* the <<path, node>> pairs in the order the two loops visit them.
RECURSIVE Work(_)
Work(nl) ==
    IF nl = <<>> THEN <<>>
    ELSE LET path == nl[1][1]
             refs == nl[1][2]
         IN  [n \in 1..Len(refs) |-> <<path, refs[n]>>] \o Work(Tail(nl))

\* The local state of a running show_nodl_parsed.
Frame ==
    [paths |-> paths, files |-> files, node_lists |-> node_lists, heap |-> heap,
     combined |-> combined, node |-> node, done |-> done, pc |-> pc, ret |-> ret,
     stdout |-> stdout, stderr |-> stderr, merge_exc |-> merge_exc]

\* lines 101-105: the parse of all paths, and the empty accumulator.
AfterParse(fr) ==
    [fr EXCEPT !.node_lists = ParseAll(fr.paths, fr.files),
               !.heap = ParsedHeap(fr.paths, fr.files),
               !.combined = <<>>,
               !.pc = "fold"]

\* What the next step of the fold is.
StepKind(fr) ==
    IF fr.pc = "start" THEN "parse"
    ELSE IF fr.pc # "fold" THEN "none"
    ELSE IF fr.done >= Len(Work(fr.node_lists)) THEN "print"
    ELSE LET item == Work(fr.node_lists)[fr.done + 1]
             name == fr.heap[item[2]].name
         IN  IF ~Has(fr.combined, name) THEN "seed"
             ELSE IF Get(fr.combined, name) = None THEN "type_error"
             ELSE IF Iadd(fr.heap[Get(fr.combined, name).node],
                          fr.heap[item[2]]).exc # None THEN "conflict"
             ELSE "merge"

\* _report_merge_error(current_node, existing_node)
ReportMergeError(current_node, existing_node, hp) ==
    <<[failed_to_merge |-> hp[current_node.node].name,
       from            |-> current_node.paths,
       existing_from   |-> existing_node.paths],
      [current_path    |-> current_node.paths[1],
       current_dict    |-> NodeAsDict(hp[current_node.node]),
       existing_paths  |-> existing_node.paths,
       existing_dict   |-> NodeAsDict(hp[existing_node.node])]>>

\* _NodeWithOrigin.__iadd__ returns nothing: the value that
\* `combined[node.name] += current_node` stores back.
NodeWithOriginIaddResult(merged) == None

\* One iteration of the loop body (lines 107-117) on the node that is next.
LoopBody(fr) ==
    LET item         == Work(fr.node_lists)[fr.done + 1]
        path         == item[1]
        ref          == item[2]
        name         == fr.heap[ref].name
        current_node == NodeWithOrigin(<<path>>, ref)
        entered      == [fr EXCEPT !.node = ref, !.done = fr.done + 1]
    IN  IF ~Has(fr.combined, name)
        THEN [entered EXCEPT !.combined = Set(fr.combined, name, current_node)]
        ELSE IF Get(fr.combined, name) = None
        THEN \* None += current_node
             [entered EXCEPT !.pc = "done", !.ret = [raised |-> "TypeError"]]
        ELSE LET acc     == Get(fr.combined, name)
                 \* self.paths += other.paths, on the object itself
                 acc1    == [acc EXCEPT !.paths = acc.paths \o current_node.paths]
                 \* self.node += other.node
                 r       == Iadd(fr.heap[acc.node], fr.heap[ref])
                 heap1   == [fr.heap EXCEPT ![acc.node] = r.node]
             IN  IF r.exc # None
                 THEN [entered EXCEPT
                          !.heap = heap1,
                          !.combined = Set(fr.combined, name, acc1),
                          !.merge_exc = r.exc,
                          !.stderr = ReportMergeError(current_node, acc1, heap1),
                          !.pc = "done",
                          !.ret = [returned |-> FALSE]]
                 ELSE [entered EXCEPT
                          !.heap = heap1,
                          !.combined = Set(fr.combined, name,
                                           NodeWithOriginIaddResult(acc1))]

\* line 118-119: pprint.pprint(node._as_dict); return True
PrintAndReturn(fr) ==
    IF fr.node = Unbound
    THEN [fr EXCEPT !.pc = "done", !.ret = [raised |-> "UnboundLocalError"]]
    ELSE [fr EXCEPT !.stdout = Append(fr.stdout, NodeAsDict(fr.heap[fr.node])),
                    !.pc = "done",
                    !.ret = [returned |-> TRUE]]

\* One step of show_nodl_parsed.
Step(fr) ==
    CASE StepKind(fr) = "parse" -> AfterParse(fr)
      [] StepKind(fr) = "print" -> PrintAndReturn(fr)
      [] StepKind(fr) = "none"  -> fr
      [] OTHER                  -> LoopBody(fr)

\* show_nodl_parsed run to its end from a frame.
RECURSIVE RunFrom(_)
RunFrom(fr) == IF fr.pc = "done" THEN fr ELSE RunFrom(Step(fr))

StartFrame(ps, fs) ==
    [paths |-> ps, files |-> fs, node_lists |-> <<>>, heap |-> <<>>,
     combined |-> <<>>, node |-> Unbound, done |-> 0, pc |-> "start", ret |-> None,
     stdout |-> <<>>, stderr |-> <<>>, merge_exc |-> None]

ShowNodlParsed(ps, fs) == RunFrom(StartFrame(ps, fs))

\* The variables take the values of the frame fr.
Becomes(fr) ==
    /\ node_lists' = fr.node_lists
    /\ heap' = fr.heap
    /\ combined' = fr.combined
    /\ node' = fr.node
    /\ done' = fr.done
    /\ pc' = fr.pc
    /\ ret' = fr.ret
    /\ stdout' = fr.stdout
    /\ stderr' = fr.stderr
    /\ merge_exc' = fr.merge_exc
    /\ UNCHANGED <<paths, files>>
    /\ UNCHANGED <<varsIadd, varsVersion, varsNode, varsIndex, varsVerb, varsEq>>

\* node_lists = {path: parse_nodl(path) for path in paths}; combined = {}
ParseFiles ==
    /\ StepKind(Frame) = "parse"
    /\ \E fr \in {AfterParse(Frame)} : Becomes(fr)

\* combined[node.name] = current_node
FoldSeed ==
    /\ StepKind(Frame) = "seed"
    /\ \E fr \in {LoopBody(Frame)} : Becomes(fr)

\* combined[node.name] += current_node, without conflict
FoldMerge ==
    /\ StepKind(Frame) = "merge"
    /\ \E fr \in {LoopBody(Frame)} : Becomes(fr)

\* combined[node.name] += current_node raises NodeMergeConflictError
FoldConflict ==
    /\ StepKind(Frame) = "conflict"
    /\ \E fr \in {LoopBody(Frame)} : Becomes(fr)

\* combined[node.name] += current_node when combined[node.name] is None
FoldNoneIadd ==
    /\ StepKind(Frame) = "type_error"
    /\ \E fr \in {LoopBody(Frame)} : Becomes(fr)

\* pprint.pprint(node._as_dict); return True
PrintLast ==
    /\ StepKind(Frame) = "print"
    /\ \E fr \in {PrintAndReturn(Frame)} : Becomes(fr)

(***************************************************************************)
(* The inputs of the fold: up to MaxPaths paths among three files, each    *)
(* file declaring up to MaxNodes nodes with distinct names.                *)
(***************************************************************************)
MaxPaths == 3
MaxNodes == 2

PathNames == <<"a", "b", "c">>

Paths == {PathNames[k] : k \in DOMAIN PathNames}

PathIndex(path) == CHOOSE k \in DOMAIN PathNames : PathNames[k] = path

\* The path lists, up to renaming of the files: a path list names the files
\* in the order a, b, c of their first occurrence.
PathLists ==
    UNION {{ps \in [1..n -> Paths] :
               \A k \in 1..n :
                   PathIndex(ps[k]) <= Cardinality({ps[q] : q \in 1..(k - 1)}) + 1} :
           n \in 0..MaxPaths}

FoldNodePool ==
    {Node("X", <<Action("foo", "T1", FALSE, FALSE, "ACTION_STATUS_DEFAULT")>>, <<>>, <<>>, <<>>),
     Node("X", <<Action("foo", "T2", FALSE, FALSE, "ACTION_STATUS_DEFAULT")>>, <<>>, <<>>, <<>>),
     Node("X", <<Action("foo", "T1", TRUE, FALSE, "ACTION_STATUS_DEFAULT")>>, <<>>, <<>>, <<>>),
     Node("X", <<>>, <<>>, <<>>, <<Topic("bar", "T1", TRUE, FALSE, "SYSTEM_DEFAULT")>>),
     Node("X", <<>>, <<>>, <<>>, <<Topic("bar", "T1", TRUE, FALSE, "SENSOR_DATA")>>),
     Node("Y", <<Action("foo", "T1", FALSE, FALSE, "ACTION_STATUS_DEFAULT")>>, <<>>, <<>>, <<>>)}

\* The documents: lists of nodes with distinct names.
Docs ==
    UNION {{ns \in [1..n -> FoldNodePool] :
               \A a, b \in 1..n : a # b => ns[a].name # ns[b].name} :
           n \in 0..MaxNodes}

InitMerge ==
    /\ IdleEq
    /\ IdleIadd
    /\ IdleVersion
    /\ IdleNode
    /\ IdleIndex
    /\ IdleVerb
    /\ paths \in PathLists
    /\ files \in [Paths -> Docs]
    /\ \A q \in Paths : (\A k \in DOMAIN paths : paths[k] # q) => files[q] = <<>>
    /\ node_lists = <<>>
    /\ heap = <<>>
    /\ combined = <<>>
    /\ node = Unbound
    /\ done = 0
    /\ pc = "start"
    /\ ret = None
    /\ stdout = <<>>
    /\ stderr = <<>>
    /\ merge_exc = None

NextMerge ==
    \/ ParseFiles
    \/ FoldSeed
    \/ FoldMerge
    \/ FoldConflict
    \/ FoldNoneIadd
    \/ PrintLast

SpecMerge == InitMerge /\ [][NextMerge]_vars

(***************************************************************************)
(* Properties of the merge.                                                *)
(***************************************************************************)
\* The four mappings of a node, without their insertion order.
NodeMaps(n) == [t \in {"actions", "parameters", "services", "topics"} |-> AsMap(n[t])]

\* Two declarations hold an entry of the same kind and name that differs.
EntryConflict(A, B) ==
    \E t \in DOMAIN NodeMaps(A) :
        \E n \in Keys(A[t]) \cap Keys(B[t]) : Get(A[t], n) # Get(B[t], n)

DeclaredNames(doc) == {doc[k].name : k \in DOMAIN doc}

Declaration(doc, name) == doc[CHOOSE k \in DOMAIN doc : doc[k].name = name]

\* The components that both documents declare, with a conflicting entry.
ConflictingNames(docA, docB) ==
    {name \in DeclaredNames(docA) \cap DeclaredNames(docB) :
        EntryConflict(Declaration(docA, name), Declaration(docB, name))}

\* The fold was given two different files.
TwoFiles == Len(paths) = 2 /\ paths[1] # paths[2]

C2_MergeIsUnion ==
    (iadd_pc \in {"returned", "raised"} /\ ~EntryConflict(self0, other))
    => /\ iadd_pc = "returned"
       /\ \A t \in DOMAIN NodeMaps(self) :
              /\ Keys(self[t]) = Keys(self0[t]) \cup Keys(other[t])
              /\ \A n \in Keys(self0[t]) : Get(self[t], n) = Get(self0[t], n)
              /\ \A n \in Keys(other[t]) : Get(self[t], n) = Get(other[t], n)

\* C2 witness: a merge returned where each operand brought a name that the
\* other lacks and a third name is shared.
C2_Witness ==
    /\ iadd_pc = "returned"
    /\ Keys(self0.actions) = {"foo"}
    /\ Keys(other.actions) = {"foo", "baz"}
    /\ Keys(self0.topics) = {"bar"}
    /\ Keys(other.topics) = {}
    /\ Keys(self.actions) = {"foo", "baz"}
    /\ Keys(self.topics) = {"bar"}

\* The component names declared in the files that the path list names.
ListedNames == UNION {DeclaredNames(files[paths[k]]) : k \in DOMAIN paths}

\* The names of the entries of kind t that the listed files declare for a component.
ListedEntryNames(name, t) ==
    UNION {Keys(Declaration(files[paths[k]], name)[t]) :
              k \in {q \in DOMAIN paths : name \in DeclaredNames(files[paths[q]])}}

\* C3: when show_nodl_parsed returns True it has printed the dict form of
\* every merged component, exactly one per distinct component name of the
\* input files.
C3_PrintsEveryMergedComponent ==
    (pc = "done" /\ ret = [returned |-> TRUE])
    => /\ Len(stdout) = Cardinality(ListedNames)
       /\ {stdout[k].name : k \in DOMAIN stdout} = ListedNames
       /\ \A k \in DOMAIN stdout : \A t \in {"actions", "parameters", "services", "topics"} :
              {stdout[k][t][e].name : e \in DOMAIN stdout[k][t]}
                  = ListedEntryNames(stdout[k].name, t)

\* The component set that the fold has accumulated: for each name the four
\* mappings of the accumulated node, or None.
Components(fr) ==
    [name \in Keys(fr.combined) |->
        IF Get(fr.combined, name) = None THEN None
        ELSE NodeMaps(fr.heap[Get(fr.combined, name).node])]

\* The component set of one parsed document.
ParsedComponents(doc) ==
    [name \in DeclaredNames(doc) |-> NodeMaps(Declaration(doc, name))]

C5_MergeCommutative ==
    (pc = "done" /\ TwoFiles)
    => \A name \in DeclaredNames(files[paths[1]]) \cap DeclaredNames(files[paths[2]]) :
         ~EntryConflict(Declaration(files[paths[1]], name),
                        Declaration(files[paths[2]], name))
         => LET ab == Frame
                ba == ShowNodlParsed(<<paths[2], paths[1]>>, files)
            IN  /\ ab.ret = [returned |-> TRUE]
                /\ ba.ret = [returned |-> TRUE]
                /\ Components(ab)[name] # None
                /\ Components(ba)[name] # None
                /\ Components(ab)[name] = Components(ba)[name]

(***************************************************************************)
(* XML elements.  An element has a tag, its attributes (a mapping from the *)
(* attribute names present to their string values) and a source line.      *)
(***************************************************************************)
Element(tag, attrib, sourceline) == [tag |-> tag, attrib |-> attrib, sourceline |-> sourceline]

\* The outcome of a call: a returned value or a raised exception, with the
\* routines that the call handed the element to.
Returned(value, invoked) == [returned |-> value, invoked |-> invoked]

Raised(exc, invoked) == [raised |-> exc, invoked |-> invoked]

IsRaised(outcome) == "raised" \in DOMAIN outcome

(***************************************************************************)
(* nodl.nodl_parse: parse_element_tree and parse_nodl_file.                *)
(***************************************************************************)
NODL_MAX_SUPPORTED_VERSION == 1

\* InvalidNoDLException(message, element)
InvalidNoDLException(message, elem) ==
    [exc |-> "InvalidNoDLException", message |-> message, element |-> elem]

\* UnsupportedInterfaceException(element): '... Unsupported interface
\* version: {element.attrib['version']} > {NODL_MAX_SUPPORTED_VERSION}'
UnsupportedInterfaceException(elem) ==
    [exc |-> "UnsupportedInterfaceException", found |-> elem.attrib.version,
     max |-> NODL_MAX_SUPPORTED_VERSION, element |-> elem]

\* parse_element_tree: the root when it is an interface, else the first
\* interface child of the root.
ParseElementTree(t) ==
    IF t.root.tag = "interface" THEN Returned(t.root, <<>>)
    ELSE IF \E k \in DOMAIN t.children : t.children[k].tag = "interface"
    THEN Returned(t.children[CHOOSE k \in DOMAIN t.children :
                      /\ t.children[k].tag = "interface"
                      /\ \A q \in 1..(k - 1) : t.children[q].tag # "interface"], <<>>)
    ELSE Raised(InvalidNoDLException(<<"No interface tag in">>, None), <<>>)

\* A gate that lets every version at least 1 through.
VersionIsOneOrLater(version) == version # "0"

\* version == "1"
VersionIsOne(version) == version = "1"

\* parse_nodl_file, from the parsed element tree on.
ParseNodlFileOf(t) ==
    LET found == ParseElementTree(t)
    IN  IF IsRaised(found) THEN found
        ELSE LET interface == found.returned
             IN  IF "version" \notin DOMAIN interface.attrib
                 THEN Raised(InvalidNoDLException(
                                 <<"Missing version attribute in 'interface'.">>, interface),
                             <<>>)
                 ELSE IF VersionIsOne(interface.attrib.version)
                 THEN Returned(interface, <<"Interface_v1">>)
                 ELSE Raised(UnsupportedInterfaceException(interface), <<>>)

(***************************************************************************)
(* nodl._parsing._parsing: _parse_interface.                               *)
(***************************************************************************)
PARSING_NODL_MAX_SUPPORTED_VERSION == 1

\* UnsupportedInterfaceError(version, max_version):
\* 'Unsupported interface version: {version} must be <= {max_version}'
UnsupportedInterfaceError(version, max_version) ==
    [exc |-> "UnsupportedInterfaceError", found |-> version, max |-> max_version]

\* interface.get('version'): the attribute, or None
GetVersion(interface) ==
    IF "version" \in DOMAIN interface.attrib
    THEN [str |-> interface.attrib.version]
    ELSE None

\* interface.get('version') == '1'
InterfaceVersionIsOne(interface) == GetVersion(interface) = [str |-> "1"]

\* _parse_interface
ParseInterfaceOf(interface) ==
    IF InterfaceVersionIsOne(interface)
    THEN Returned(interface, <<"parse_v1._validate_and_parse">>)
    ELSE Raised(UnsupportedInterfaceError(GetVersion(interface),
                                          PARSING_NODL_MAX_SUPPORTED_VERSION), <<>>)

(***************************************************************************)
(* nodl._parsing._parsing: _parse_element_tree.  The schema validation is  *)
(* seen through its error log: empty when the document is valid.           *)
(***************************************************************************)
\* etree.DocumentInvalid, with the validator's error log
DocumentInvalid(log) == [exc |-> "DocumentInvalid", error_log |-> log]

\* InvalidNoDLError(message, e)
InvalidNoDLError(message, e) ==
    [exc |-> "InvalidNoDLError", message |-> message, invalid |-> e]

\* Some error of the log, not only the first, is SCHEMAV_CVC_ELT_1.
AnyErrorIsRootNotDeclared(e) ==
    \E k \in DOMAIN e.error_log : e.error_log[k].type = "SCHEMAV_CVC_ELT_1"

\* e.error_log[0].type == etree.ErrorTypes.SCHEMAV_CVC_ELT_1
FirstErrorIsRootNotDeclared(e) == e.error_log[1].type = "SCHEMAV_CVC_ELT_1"

\* _parse_element_tree
ParseElementTreeOf(t, log) ==
    IF log # <<>>
    THEN \* _SCHEMA.assertValid(element_tree) raises DocumentInvalid
         IF FirstErrorIsRootNotDeclared(DocumentInvalid(log))
         THEN Raised(InvalidNoDLError(<<"Failed to parse root interface element">>,
                                      DocumentInvalid(log)), <<>>)
         ELSE Raised(InvalidNoDLError(<<"Document Invalid">>, DocumentInvalid(log)), <<>>)
    ELSE LET parsed == ParseInterfaceOf(t.root)
         IN  [parsed EXCEPT !.invoked = <<"_parse_interface">> \o parsed.invoked]

(***************************************************************************)
(* The documents given to the version gate: a root element, an interface   *)
(* or not, with up to one child; versions 0..MaxVersion or none.           *)
(***************************************************************************)
MaxVersion == 3

VersionAttribs ==
    {[k \in {} |-> ""]} \cup {[k \in {"version"} |-> ToString(n)] : n \in 0..MaxVersion}

\* int(version)
VersionNumber(version) == CHOOSE n \in 0..MaxVersion : ToString(n) = version

Trees ==
    {[root |-> Element(root_tag, root_attrib, 1), children |-> children] :
        root_tag \in {"interface", "notinterface"},
        root_attrib \in VersionAttribs,
        children \in {<<>>} \cup
            {<<Element(tag, attrib, 2)>> :
                tag \in {"interface", "node"}, attrib \in VersionAttribs}}

\* The error logs of the schema validation: up to MaxErrors errors.
MaxErrors == 2

ErrorTypes == {"SCHEMAV_CVC_ELT_1", "SCHEMAV_CVC_COMPLEX_TYPE_4", "SCHEMAV_ELEMENT_CONTENT"}

ErrorLogs == UNION {[1..n -> {[type |-> t] : t \in ErrorTypes}] : n \in 0..MaxErrors}

InitVersion ==
    /\ IdleEq
    /\ IdleIadd
    /\ IdleMerge
    /\ IdleNode
    /\ IdleIndex
    /\ IdleVerb
    /\ tree \in Trees
    /\ file_res = None
    /\ iface_res = None
    /\ error_log \in ErrorLogs
    /\ tree_res = None

\* nodl_parse.parse_nodl_file(path) on the document
ParseNodlFile ==
    /\ tree # None
    /\ file_res = None
    /\ file_res' = ParseNodlFileOf(tree)
    /\ UNCHANGED <<tree, iface_res, error_log, tree_res>>
    /\ UNCHANGED <<varsIadd, varsMerge, varsNode, varsIndex, varsVerb, varsEq>>

\* _parsing._parse_interface(element_tree.getroot())
ParseInterface ==
    /\ tree # None
    /\ iface_res = None
    /\ iface_res' = ParseInterfaceOf(tree.root)
    /\ UNCHANGED <<tree, file_res, error_log, tree_res>>
    /\ UNCHANGED <<varsIadd, varsMerge, varsNode, varsIndex, varsVerb, varsEq>>

\* _parsing._parse_element_tree(element_tree)
ParseElementTreeValidated ==
    /\ tree # None
    /\ tree_res = None
    /\ tree_res' = ParseElementTreeOf(tree, error_log)
    /\ UNCHANGED <<tree, file_res, iface_res, error_log>>
    /\ UNCHANGED <<varsIadd, varsMerge, varsNode, varsIndex, varsVerb, varsEq>>

NextVersion == ParseNodlFile \/ ParseInterface \/ ParseElementTreeValidated

SpecVersion == InitVersion /\ [][NextVersion]_vars

\* The interface element that parse_nodl_file looks at, when there is one.
HasInterface(t) == ~IsRaised(ParseElementTree(t))

InterfaceOf(t) == ParseElementTree(t).returned

TooNew(interface) ==
    /\ "version" \in DOMAIN interface.attrib
    /\ VersionNumber(interface.attrib.version) > 1

\* C6: an interface whose version is greater than the maximum supported
\* version 1 fails with the unsupported-version error, which reports the
\* version found and the maximum; the version-1 extraction is not invoked.
C6_VersionGate ==
    /\ (file_res # None /\ HasInterface(tree) /\ TooNew(InterfaceOf(tree)))
       => /\ IsRaised(file_res)
          /\ file_res.raised.exc = "UnsupportedInterfaceException"
          /\ file_res.raised.found = InterfaceOf(tree).attrib.version
          /\ file_res.raised.max = 1
          /\ file_res.invoked = <<>>
    /\ (iface_res # None /\ TooNew(tree.root))
       => /\ IsRaised(iface_res)
          /\ iface_res.raised.exc = "UnsupportedInterfaceError"
          /\ iface_res.raised.found = [str |-> tree.root.attrib.version]
          /\ iface_res.raised.max = 1
          /\ iface_res.invoked = <<>>

\* C6 witness: both parsers have rejected a root interface of version 2.
C6_Witness ==
    /\ file_res # None /\ iface_res # None
    /\ tree.root.tag = "interface"
    /\ "version" \in DOMAIN tree.root.attrib
    /\ tree.root.attrib.version = "2"
    /\ IsRaised(file_res) /\ IsRaised(iface_res)

IsUnsupportedVersionError(e) ==
    e.exc \in {"UnsupportedInterfaceException", "UnsupportedInterfaceError"}

IsMissingVersionError(e) ==
    /\ ~IsUnsupportedVersionError(e)
    /\ "message" \in DOMAIN e
    /\ e.message = <<"Missing version attribute in 'interface'.">>

\* C7: an interface element without a version attribute fails with a
\* missing-version error that names the interface element, and never with
\* the unsupported-version error.
C7_MissingVersionIsDistinct ==
    /\ (file_res # None /\ HasInterface(tree)
            /\ "version" \notin DOMAIN InterfaceOf(tree).attrib)
       => /\ IsRaised(file_res)
          /\ IsMissingVersionError(file_res.raised)
    /\ (iface_res # None /\ "version" \notin DOMAIN tree.root.attrib)
       => /\ IsRaised(iface_res)
          /\ IsMissingVersionError(iface_res.raised)

(***************************************************************************)
(* nodl.nodl_parse: str_to_bool and the Interface_v1 extractors.           *)
(***************************************************************************)
\* The records of nodl.nodl_types that the extractors construct: an entry
\* has a name, a type and its role flags; a node has its name and four
\* mappings from entry name to entry, the last occurrence of a name winning.
NodlTypesAction(name, action_type, server, client) ==
    [cls |-> "Action",
     dict |-> [name |-> name, type |-> action_type, server |-> server, client |-> client]]

NodlTypesParameter(name, parameter_type) ==
    [cls |-> "Parameter", dict |-> [name |-> name, type |-> parameter_type]]

NodlTypesService(name, service_type, server, client) ==
    [cls |-> "Service",
     dict |-> [name |-> name, type |-> service_type, server |-> server, client |-> client]]

NodlTypesTopic(name, message_type, publisher, subscriber) ==
    [cls |-> "Topic",
     dict |-> [name |-> name, type |-> message_type,
               publisher |-> publisher, subscriber |-> subscriber]]

NodlTypesNode(name, actions, parameters, services, topics) ==
    [name |-> name,
     actions |-> DictByName(actions),
     parameters |-> DictByName(parameters),
     services |-> DictByName(services),
     topics |-> DictByName(topics)]

\* The outcome of an extractor: the value returned with the warnings it
\* emitted, or the exception raised.
Parsed(value, warnings) == [returned |-> value, warnings |-> warnings]

Failed(exc) == [raised |-> exc, warnings |-> <<>>]

KeyError(key) == [exc |-> "KeyError", args |-> <<key>>]

AttributeError(type, attribute) ==
    [exc |-> "AttributeError", args |-> <<type, "object has no attribute", attribute>>]

\* The Python value False, as opposed to a string.
PyFalse == [bool |-> FALSE]

\* attribs.get(key, default)
AttribGet(attribs, key, default) ==
    IF key \in DOMAIN attribs THEN [str |-> attribs[key]] ELSE default

\* str.lower() on the strings a role attribute is given here
Lower(string) ==
    CASE string = "True" -> "true"
      [] string = "False" -> "false"
      [] OTHER -> string

\* str_to_bool: boolean_string.lower() in ["true", "1"]
StrToBool(boolean_string) ==
    IF "str" \in DOMAIN boolean_string
    THEN Parsed(Lower(boolean_string.str) \in {"true", "1"}, <<>>)
    ELSE Failed(AttributeError("bool", "lower"))

\* warnings.warn(f"{element.base}:{element.sourceline}: {name} is neither
\* ...", NoNodeInterfaceWarning)
NoNodeInterfaceWarning(elem, name, text) ==
    [category |-> "NoNodeInterfaceWarning", sourceline |-> elem.sourceline,
     name |-> name, text |-> text]

\* Interface_v1.parse_action
ParseAction(elem) ==
    LET attribs == elem.attrib
    IN  IF "name" \notin DOMAIN attribs THEN Failed(KeyError("name"))
        ELSE IF "type" \notin DOMAIN attribs THEN Failed(KeyError("type"))
        ELSE LET server == StrToBool(AttribGet(attribs, "server", PyFalse))
                 client == StrToBool(AttribGet(attribs, "client", PyFalse))
             IN  IF IsRaised(server) THEN Failed(server.raised)
                 ELSE IF IsRaised(client) THEN Failed(client.raised)
                 ELSE Parsed(NodlTypesAction(attribs.name, attribs.type,
                                             server.returned, client.returned),
                             IF ~(server.returned \/ client.returned)
                             THEN <<NoNodeInterfaceWarning(elem, attribs.name,
                                                           "is neither server or client")>>
                             ELSE <<>>)

\* Interface_v1.parse_parameter
ParseParameter(elem) ==
    LET attribs == elem.attrib
    IN  IF "name" \notin DOMAIN attribs THEN Failed(KeyError("name"))
        ELSE IF "type" \notin DOMAIN attribs THEN Failed(KeyError("type"))
        ELSE Parsed(NodlTypesParameter(attribs.name, attribs.type), <<>>)

\* Interface_v1.parse_service
ParseService(elem) ==
    LET attribs == elem.attrib
    IN  IF "name" \notin DOMAIN attribs THEN Failed(KeyError("name"))
        ELSE IF "type" \notin DOMAIN attribs THEN Failed(KeyError("type"))
        ELSE LET server == StrToBool(AttribGet(attribs, "server", PyFalse))
                 client == StrToBool(AttribGet(attribs, "client", PyFalse))
             IN  IF IsRaised(server) THEN Failed(server.raised)
                 ELSE IF IsRaised(client) THEN Failed(client.raised)
                 ELSE Parsed(NodlTypesService(attribs.name, attribs.type,
                                              server.returned, client.returned),
                             IF ~(server.returned \/ client.returned)
                             THEN <<NoNodeInterfaceWarning(elem, attribs.name,
                                                           "is neither server or client")>>
                             ELSE <<>>)

\* Interface_v1.parse_topic: the KeyError of a missing name or type is
\* caught here and raised again as an InvalidNoDLException on the element.
ParseTopic(elem) ==
    LET attribs == elem.attrib
    IN  IF "name" \notin DOMAIN attribs
        THEN Failed(InvalidNoDLException(
                        <<"Topic", "is missing required attribute", "name">>, elem))
        ELSE IF "type" \notin DOMAIN attribs
        THEN Failed(InvalidNoDLException(
                        <<"Topic", "is missing required attribute", "type">>, elem))
        ELSE LET publisher == StrToBool(AttribGet(attribs, "publisher", PyFalse))
                 subscriber == StrToBool(AttribGet(attribs, "subscriber", PyFalse))
             IN  IF IsRaised(publisher) THEN Failed(publisher.raised)
                 ELSE IF IsRaised(subscriber) THEN Failed(subscriber.raised)
                 ELSE Parsed(NodlTypesTopic(attribs.name, attribs.type,
                                            publisher.returned, subscriber.returned),
                             IF ~(publisher.returned \/ subscriber.returned)
                             THEN <<NoNodeInterfaceWarning(elem, attribs.name,
                                                  "is neither publisher or subscriber")>>
                             ELSE <<>>)

ChildTags == {"action", "parameter", "service", "topic"}

\* The extractor that parse_node hands a child to, by the child's tag.
ParseChild(child) ==
    CASE child.tag = "action" -> ParseAction(child)
      [] child.tag = "parameter" -> ParseParameter(child)
      [] child.tag = "service" -> ParseService(child)
      [] child.tag = "topic" -> ParseTopic(child)

\* The handler passes the KeyError on as it is.
PropagateKeyError(child, excinfo) == excinfo

\* except KeyError as excinfo: raise InvalidNoDLException(
\*     f"{child.tag} is missing required attribute {excinfo.args[0]}", child)
ReraiseKeyError(child, excinfo) ==
    InvalidNoDLException(<<child.tag, "is missing required attribute", excinfo.args[1]>>,
                         child)

\* What the loop of parse_node has gathered so far.
Gathered(actions, parameters, services, topics, warnings, called) ==
    [actions |-> actions, parameters |-> parameters, services |-> services,
     topics |-> topics, warnings |-> warnings, called |-> called]

Gather(acc, child, out) ==
    LET called == Append(acc.called, [sourceline |-> child.sourceline, outcome |-> out])
        warnings == acc.warnings \o out.warnings
    IN  CASE child.tag = "action" ->
               Gathered(Append(acc.actions, out.returned), acc.parameters, acc.services,
                        acc.topics, warnings, called)
          [] child.tag = "parameter" ->
               Gathered(acc.actions, Append(acc.parameters, out.returned), acc.services,
                        acc.topics, warnings, called)
          [] child.tag = "service" ->
               Gathered(acc.actions, acc.parameters, Append(acc.services, out.returned),
                        acc.topics, warnings, called)
          [] child.tag = "topic" ->
               Gathered(acc.actions, acc.parameters, acc.services,
                        Append(acc.topics, out.returned), warnings, called)

\* for child in node: ... of Interface_v1.parse_node, from child k on
RECURSIVE ParseChildren(_, _, _)
ParseChildren(node_elem, k, acc) ==
    IF k > Len(node_elem.children)
    THEN [returned |-> NodlTypesNode(node_elem.attrib.name, acc.actions, acc.parameters,
                                     acc.services, acc.topics),
          warnings |-> acc.warnings, called |-> acc.called]
    ELSE LET child == node_elem.children[k]
         IN  IF child.tag \notin ChildTags
             THEN ParseChildren(node_elem, k + 1, acc)
             ELSE LET out == ParseChild(child)
                      called == Append(acc.called,
                                       [sourceline |-> child.sourceline, outcome |-> out])
                  IN  IF ~IsRaised(out)
                      THEN ParseChildren(node_elem, k + 1, Gather(acc, child, out))
                      ELSE [raised |-> IF out.raised.exc = "KeyError"
                                       THEN ReraiseKeyError(child, out.raised)
                                       ELSE out.raised,
                            warnings |-> acc.warnings, called |-> called]

\* Interface_v1.parse_node
ParseNode(node_elem) ==
    IF "name" \notin DOMAIN node_elem.attrib
    THEN [raised |-> InvalidNoDLException(
                         <<"Node", "is missing required attribute", "name">>, None),
          warnings |-> <<>>, called |-> <<>>]
    ELSE ParseChildren(node_elem, 1, Gathered(<<>>, <<>>, <<>>, <<>>, <<>>, <<>>))

(***************************************************************************)
(* The node elements given to parse_node: with or without a name, and up   *)
(* to MaxChildren children.  A child with its name and type has each role  *)
(* attribute absent, affirmative or not; a child lacking its name or type  *)
(* has both role attributes written out.                                   *)
(***************************************************************************)
MaxChildren == 2

NameAttribs == {<<>>, "name" :> "foo"}

TypeAttribs == {<<>>, "type" :> "T1"}

RoleAttribs(role_a, role_b) ==
    {a @@ b : a \in {<<>>, role_a :> "True", role_a :> "false"},
              b \in {<<>>, role_b :> "1", role_b :> "False"}}

RoleChildren(tag, role_a, role_b) ==
    {[tag |-> tag, attrib |-> n @@ t @@ r] :
        n \in {"name" :> "foo"}, t \in {"type" :> "T1"}, r \in RoleAttribs(role_a, role_b)}
    \cup
    {[tag |-> tag, attrib |-> n @@ t @@ (role_a :> "false") @@ (role_b :> "False")] :
        n \in NameAttribs, t \in TypeAttribs}

ChildPool ==
    RoleChildren("action", "server", "client")
    \cup RoleChildren("service", "server", "client")
    \cup RoleChildren("topic", "publisher", "subscriber")
    \cup {[tag |-> "parameter", attrib |-> n @@ t] : n \in NameAttribs, t \in TypeAttribs}
    \cup {[tag |-> "description", attrib |-> <<>>]}

ChildLists == UNION {[1..n -> ChildPool] : n \in 0..MaxChildren}

NodeElement(attrib, children) ==
    [tag |-> "node", attrib |-> attrib, sourceline |-> 1,
     children |-> [k \in DOMAIN children |->
                      Element(children[k].tag, children[k].attrib, k + 1)]]

InitNode ==
    /\ IdleEq
    /\ IdleIadd
    /\ IdleMerge
    /\ IdleVersion
    /\ IdleIndex
    /\ IdleVerb
    /\ element \in {NodeElement(attrib, children) :
                        attrib \in {<<>>, "name" :> "n"}, children \in ChildLists}
    /\ node_res = None
    /\ calls = <<>>
    /\ warned = <<>>

\* Interface_v1.parse_node(element)
ParseNodeElement ==
    /\ element # None
    /\ node_res = None
    /\ \E out \in {ParseNode(element)} :
          /\ node_res' = IF IsRaised(out) THEN [raised |-> out.raised]
                                          ELSE [returned |-> out.returned]
          /\ calls' = out.called
          /\ warned' = out.warnings
    /\ UNCHANGED element
    /\ UNCHANGED <<varsIadd, varsMerge, varsVersion, varsIndex, varsVerb, varsEq>>

NextNode == ParseNodeElement

SpecNode == InitNode /\ [][NextNode]_vars

\* The child element that a call of an extractor was made on.
CalledChild(c) == element.children[calls[c].sourceline - 1]

RequiredAttributes == <<"name", "type">>

LacksRequired(child) == \E k \in 1..2 : RequiredAttributes[k] \notin DOMAIN child.attrib

\* The attribute whose lookup fails: name is looked up before type.
FirstMissing(child) == IF "name" \notin DOMAIN child.attrib THEN "name" ELSE "type"

\* C8: when an action, service, topic or parameter child that lacks name or
\* type is parsed, parsing fails with the invalid-NoDL error naming the
\* missing attribute and that child element; no raw key error surfaces and
\* no component is returned.
C8_MissingAttributeNamesChild ==
    \A c \in DOMAIN calls :
        LacksRequired(CalledChild(c))
        => /\ IsRaised(calls[c].outcome)
           /\ IsRaised(node_res)
           /\ node_res.raised.exc = "InvalidNoDLException"
           /\ node_res.raised.message[2] = "is missing required attribute"
           /\ node_res.raised.message[3] = FirstMissing(CalledChild(c))
           /\ node_res.raised.element = CalledChild(c)

\* C8 witness: a service that lacks its type, after a sibling that parsed,
\* has been handed to its extractor and the node's parse has failed.
C8_Witness ==
    /\ Len(calls) = 2
    /\ CalledChild(2).tag = "service"
    /\ DOMAIN CalledChild(2).attrib = {"name", "server", "client"}
    /\ IsRaised(node_res)

Roles(tag) == IF tag = "topic" THEN {"publisher", "subscriber"} ELSE {"server", "client"}

KindOf(tag) ==
    CASE tag = "action" -> "Action"
      [] tag = "service" -> "Service"
      [] tag = "topic" -> "Topic"

\* A role attribute that is present with an affirmative value.
Affirmative(child, role) ==
    /\ role \in DOMAIN child.attrib
    /\ Lower(child.attrib[role]) \in {"true", "1"}

HasRoles(child) ==
    /\ child.tag \in {"action", "service", "topic"}
    /\ ~LacksRequired(child)

\* C9: an action, service or topic element with no affirmative role flag
\* parses into an entry of its kind and emits exactly one ambiguous-role
\* warning for that entry; an element with an affirmative role flag emits
\* no such warning.
C9_AmbiguousRoleWarning ==
    \A c \in DOMAIN calls :
        HasRoles(CalledChild(c))
        => IF \A role \in Roles(CalledChild(c).tag) : ~Affirmative(CalledChild(c), role)
           THEN /\ ~IsRaised(calls[c].outcome)
                /\ calls[c].outcome.returned.cls = KindOf(CalledChild(c).tag)
                /\ Len(calls[c].outcome.warnings) = 1
                /\ calls[c].outcome.warnings[1].name = CalledChild(c).attrib.name
                /\ calls[c].outcome.warnings[1].sourceline = calls[c].sourceline
           ELSE calls[c].outcome.warnings = <<>>

\* C10: an action, service or topic element that omits a role attribute
\* parses successfully, and each omitted role flag of the entry is false.
C10_OmittedRoleIsFalse ==
    \A c \in DOMAIN calls :
        (/\ HasRoles(CalledChild(c))
         /\ \E role \in Roles(CalledChild(c).tag) : role \notin DOMAIN CalledChild(c).attrib)
        => /\ ~IsRaised(calls[c].outcome)
           /\ \A role \in Roles(CalledChild(c).tag) :
                 role \notin DOMAIN CalledChild(c).attrib
                 => calls[c].outcome.returned.dict[role] = FALSE

(***************************************************************************)
(* Further properties of the merge fold (SpecMerge).                       *)
(***************************************************************************)
\* C13: when merging the components of the given paths hits a conflict,
\* show_nodl_parsed raises the NodeMergeConflictError to its caller.
C13_ConflictIsRaisedToCaller ==
    (pc = "done" /\ merge_exc # None)
    => /\ "raised" \in DOMAIN ret
       /\ ret.raised = merge_exc

\* The listed files are pairwise different and no two of them declare a
\* component with an entry of the same kind and name that differs.
NoConflictAmongListed ==
    /\ \A i, j \in DOMAIN paths : i # j => paths[i] # paths[j]
    /\ \A i, j \in DOMAIN paths :
          \A name \in DeclaredNames(files[paths[i]]) \cap DeclaredNames(files[paths[j]]) :
              ~EntryConflict(Declaration(files[paths[i]], name),
                             Declaration(files[paths[j]], name))

\* The components that every listed file declares.
DeclaredByAll ==
    {name \in ListedNames : \A k \in DOMAIN paths : name \in DeclaredNames(files[paths[k]])}

\* C18: after folding n >= 1 files that each declare a component X, with no
\* conflicting entries, no error was raised and the accumulator holds for X
\* a node-with-origin (never None) whose mappings are the union of the n
\* declarations.
C18_FoldAnyNumberOfFiles ==
    (pc = "done" /\ Len(paths) >= 1 /\ NoConflictAmongListed)
    => \A name \in DeclaredByAll :
          /\ "raised" \notin DOMAIN ret
          /\ merge_exc = None
          /\ Has(combined, name)
          /\ Get(combined, name) # None
          /\ \A t \in {"actions", "parameters", "services", "topics"} :
                Keys(heap[Get(combined, name).node][t]) = ListedEntryNames(name, t)

\* C19: during and after the fold, whether it succeeded or hit a conflict,
\* every node that parsing a file returned still has exactly the entries
\* that the file declares.
C19_ParsedNodesUnchanged ==
    \A r \in DOMAIN heap :
        /\ heap[r].name = files[r[1]][r[2]].name
        /\ NodeMaps(heap[r]) = NodeMaps(files[r[1]][r[2]])

\* The position of a path among the keys of node_lists.
KeyIndex(path) == CHOOSE k \in DOMAIN node_lists : node_lists[k][1] = path

\* C20: when a conflict is reported for a component, the origin reported
\* for the current declaration is exactly the current file, and the origins
\* reported for the accumulated declaration are exactly the files declaring
\* the component that were folded before the current file, without it.
C20_ConflictOrigins ==
    (pc = "done" /\ merge_exc # None)
    => LET current  == stderr[1].from
           earlier  == {node_lists[k][1] : k \in 1..(KeyIndex(current[1]) - 1)}
           declared == {q \in earlier : merge_exc.name \in DeclaredNames(files[q])}
           Origins(ps) == {ps[k] : k \in DOMAIN ps}
       IN  /\ Len(current) = 1
           /\ stderr[2].current_path = current[1]
           /\ current[1] \notin Origins(stderr[1].existing_from)
           /\ Origins(stderr[1].existing_from) = declared
           /\ Origins(stderr[2].existing_paths) = declared

(***************************************************************************)
(* Properties of the schema validation step (SpecVersion).                 *)
(***************************************************************************)
\* C15: a document that fails schema validation makes _parse_element_tree
\* raise InvalidNoDLError without invoking the interface extraction; the
\* error is the missing-root one exactly when the first error of the
\* validator is the root-element-not-declared error, and the generic
\* document-invalid one for every other first error.
C15_SchemaFailureIsClassified ==
    (tree_res # None /\ error_log # <<>>)
    => /\ IsRaised(tree_res)
       /\ tree_res.raised.exc = "InvalidNoDLError"
       /\ tree_res.invoked = <<>>
       /\ tree_res.raised.invalid.error_log = error_log
       /\ (tree_res.raised.message = <<"Failed to parse root interface element">>)
          <=> (error_log[1].type = "SCHEMAV_CVC_ELT_1")
       /\ (tree_res.raised.message = <<"Document Invalid">>)
          <=> (error_log[1].type # "SCHEMAV_CVC_ELT_1")

\* C15 witness: a document whose second, not first, validation error is the
\* root-element-not-declared one was reported as document-invalid.
C15_Witness ==
    /\ tree_res # None
    /\ Len(error_log) = 2
    /\ error_log[1].type = "SCHEMAV_ELEMENT_CONTENT"
    /\ error_log[2].type = "SCHEMAV_CVC_ELT_1"
    /\ IsRaised(tree_res)
    /\ tree_res.raised.message = <<"Document Invalid">>

(***************************************************************************)
(* nodl._index and ros2nodl.api.api: the discovery of descriptor files.    *)
(* A name is a sequence of characters, a path the sequence of its names    *)
(* below the scanned directory.                                            *)
(***************************************************************************)
\* The characters of the names, in the order of their code points.
Alphabet == <<".", "a", "b", "c", "d", "e", "f", "g", "h", "i", "j", "k", "l", "m", "n", "o", "p", "q", "r", "s", "t", "u", "v", "w", "x", "y", "z">>

CharCode(c) == CHOOSE k \in DOMAIN Alphabet : Alphabet[k] = c

\* str.__lt__
RECURSIVE StrLess(_, _)
StrLess(a, b) ==
    IF b = <<>> THEN FALSE
    ELSE IF a = <<>> THEN TRUE
    ELSE IF a[1] # b[1] THEN CharCode(a[1]) < CharCode(b[1])
    ELSE StrLess(Tail(a), Tail(b))

\* PurePath.__lt__: the parts of the two paths compared as lists
RECURSIVE PathLess(_, _)
PathLess(p, q) ==
    IF q = <<>> THEN FALSE
    ELSE IF p = <<>> THEN TRUE
    ELSE IF p[1] # q[1] THEN StrLess(p[1], q[1])
    ELSE PathLess(Tail(p), Tail(q))

\* The matching of a name against a pattern in which * stands for any
\* characters.
RECURSIVE FnMatch(_, _)
FnMatch(name, pattern) ==
    IF pattern = <<>> THEN name = <<>>
    ELSE IF pattern[1] = "*"
    THEN \/ FnMatch(name, Tail(pattern))
         \/ name # <<>> /\ FnMatch(Tail(name), pattern)
    ELSE /\ name # <<>>
         /\ name[1] = pattern[1]
         /\ FnMatch(Tail(name), Tail(pattern))

\* '*.nodl.xml'
NodlPattern == <<"*", ".", "n", "o", "d", "l", ".", "x", "m", "l">>

\* The files and directories below the scanned directory.
Entries(files_below) == UNION {{SubSeq(p, 1, k) : k \in 1..Len(p)} : p \in files_below}

\* path.rglob('*.nodl.xml') / path.glob('**/*.nodl.xml'): the entries at any
\* depth whose name matches.
RGlob(files_below) == {p \in Entries(files_below) : FnMatch(p[Len(p)], NodlPattern)}

\* The orders in which the file system may yield a set of paths.
Orders(S) ==
    {order \in [1..Cardinality(S) -> S] :
        \A i, j \in 1..Cardinality(S) : i # j => order[i] # order[j]}

\* The list is returned in the order it was yielded.
AsYielded(xs) == xs

\* sorted(xs), by insertion
RECURSIVE Sorted(_)
Sorted(xs) ==
    IF xs = <<>> THEN <<>>
    ELSE LET rest == Sorted(Tail(xs))
             before == SelectSeq(rest, LAMBDA y : ~PathLess(xs[1], y))
             after == SelectSeq(rest, LAMBDA y : PathLess(xs[1], y))
         IN  before \o <<xs[1]>> \o after

\* nodl._index.get_nodl_xml_files_in_path, given the order of the matches
GetNodlXmlFilesInPath(order) == Sorted(order)

\* ros2nodl.api.api.get_nodl_xml_files_in_path
ApiGetNodlXmlFilesInPath(order) == Sorted(order)

PackageNotFoundError(package_name) ==
    [exc |-> "PackageNotFoundError", package_name |-> package_name]

NoNoDLFilesError(package_name) ==
    [exc |-> "NoNoDLFilesError", package_name |-> package_name]

\* The emptiness test never holds.
NeverEmpty(paths_found) == FALSE

\* not nodl_paths
NotNodlPaths(paths_found) == paths_found = <<>>

\* nodl._index.get_nodl_files_from_package_share
GetNodlFilesFromPackageShare(package_name, known, order) ==
    IF ~known THEN [raised |-> PackageNotFoundError(package_name)]
    ELSE IF NotNodlPaths(GetNodlXmlFilesInPath(order))
    THEN [raised |-> NoNoDLFilesError(package_name)]
    ELSE [returned |-> GetNodlXmlFilesInPath(order)]

\* ros2nodl.api.api.get_nodl_files_from_package_share
ApiGetNodlFilesFromPackageShare(package_name, known, order) ==
    IF ~known THEN [raised |-> PackageNotFoundError(package_name)]
    ELSE IF ApiGetNodlXmlFilesInPath(order) = <<>>
    THEN [raised |-> NoNoDLFilesError(package_name)]
    ELSE [returned |-> ApiGetNodlXmlFilesInPath(order)]

(***************************************************************************)
(* The directories scanned: up to MaxFiles files, in the directory itself  *)
(* or in one of two subdirectories, one of which has a matching name.      *)
(***************************************************************************)
MaxFiles == 3

FileNames ==
    {<<"f", "o", "o", ".", "n", "o", "d", "l", ".", "x", "m", "l">>,
     <<"b", "a", "r", ".", "n", "o", "d", "l", ".", "x", "m", "l">>,
     <<"b", "a", "z", ".", "x", "m", "l", ".", "n", "o", "d", "l">>,
     <<"f", "i", "z", "z", ".", "n", "o", "d", "l">>,
     <<"b", "u", "z", "z", ".", "x", "m", "l">>,
     <<"j", "o", "n", "o", "d", "l", ".", "x", "m", "l">>}

\* The files in the two subdirectories, sub and d.nodl.xml.
NestedPaths ==
    {<<<<"s", "u", "b">>, <<"f", "o", "o", ".", "n", "o", "d", "l", ".", "x", "m", "l">>>>,
     <<<<"s", "u", "b">>, <<"j", "o", "n", "o", "d", "l", ".", "x", "m", "l">>>>,
     <<<<"d", ".", "n", "o", "d", "l", ".", "x", "m", "l">>,
       <<"b", "a", "r", ".", "n", "o", "d", "l", ".", "x", "m", "l">>>>,
     <<<<"d", ".", "n", "o", "d", "l", ".", "x", "m", "l">>,
       <<"b", "u", "z", "z", ".", "x", "m", "l">>>>}

FilePaths == {<<n>> : n \in FileNames} \cup NestedPaths

FileTrees == {t \in SUBSET FilePaths : Cardinality(t) <= MaxFiles}

InitIndex ==
    /\ IdleEq
    /\ IdleIadd
    /\ IdleMerge
    /\ IdleVersion
    /\ IdleNode
    /\ IdleVerb
    /\ fs_tree \in FileTrees
    /\ pkg_found \in BOOLEAN
    /\ yielded = <<>>
    /\ nodl_paths = None
    /\ share_res = None
    /\ api_share_res = None

\* nodl._index.get_nodl_xml_files_in_path(path=directory)
ScanPath ==
    /\ nodl_paths = None
    /\ \E order \in Orders(RGlob(fs_tree)) :
          /\ yielded' = order
          /\ nodl_paths' = [returned |-> GetNodlXmlFilesInPath(order)]
    /\ UNCHANGED <<fs_tree, pkg_found, share_res, api_share_res>>
    /\ UNCHANGED <<varsIadd, varsMerge, varsVersion, varsNode, varsVerb, varsEq>>

\* nodl._index.get_nodl_files_from_package_share(package_name="pkg")
IndexPackageShare ==
    /\ share_res = None
    /\ \E order \in Orders(RGlob(fs_tree)) :
          share_res' = GetNodlFilesFromPackageShare("pkg", pkg_found, order)
    /\ UNCHANGED <<fs_tree, pkg_found, yielded, nodl_paths, api_share_res>>
    /\ UNCHANGED <<varsIadd, varsMerge, varsVersion, varsNode, varsVerb, varsEq>>

\* ros2nodl.api.get_nodl_files_from_package_share(package_name="pkg")
ApiPackageShare ==
    /\ api_share_res = None
    /\ \E order \in Orders(RGlob(fs_tree)) :
          api_share_res' = ApiGetNodlFilesFromPackageShare("pkg", pkg_found, order)
    /\ UNCHANGED <<fs_tree, pkg_found, yielded, nodl_paths, share_res>>
    /\ UNCHANGED <<varsIadd, varsMerge, varsVersion, varsNode, varsVerb, varsEq>>

NextIndex == ScanPath \/ IndexPackageShare \/ ApiPackageShare

SpecIndex == InitIndex /\ [][NextIndex]_vars

\* '.nodl.xml'
NodlSuffix == <<".", "n", "o", "d", "l", ".", "x", "m", "l">>

EndsWith(name, suffix) ==
    /\ Len(name) >= Len(suffix)
    /\ SubSeq(name, Len(name) - Len(suffix) + 1, Len(name)) = suffix

\* The paths below the scanned directory whose name ends with '.nodl.xml'.
DescriptorPaths == {p \in Entries(fs_tree) : EndsWith(p[Len(p)], NodlSuffix)}

\* A list holds exactly the descriptor paths, each once, in ascending order.
IsSortedDescriptorList(xs) ==
    /\ {xs[k] : k \in DOMAIN xs} = DescriptorPaths
    /\ Len(xs) = Cardinality(DescriptorPaths)
    /\ \A i, j \in DOMAIN xs : i < j => PathLess(xs[i], xs[j])

BaseOf(cls) ==
    CASE cls = "InvalidNoDLDocumentError" -> "InvalidNoDLError"
      [] cls = "InvalidElementError" -> "InvalidNoDLError"
      [] cls = "UnsupportedInterfaceError" -> "InvalidNoDLError"
      [] cls = "InvalidNoDLError" -> "NoDLError"
      [] cls = "NodeMergeConflictError" -> "NodeMergeError"
      [] cls = "NodeMergeError" -> "NoDLError"
      [] OTHER -> "Exception"

\* issubclass(cls, base), as an except clause tests it
RECURSIVE IsSubclass(_, _)
IsSubclass(cls, base) ==
    \/ cls = base
    \/ cls # "Exception" /\ IsSubclass(BaseOf(cls), base)

\* except nodl.errors.InvalidNoDLDocumentError
CatchesInvalidDocument(cls) == IsSubclass(cls, "InvalidNoDLDocumentError")

\* path.name
PathName(path) ==
    CASE path = "a" -> "a.nodl.xml"
      [] path = "b" -> "b.nodl.xml"
      [] path = "c" -> "c.nodl.xml"

\* The outcome of a call: the value returned or the exception raised, with
\* what was printed to stdout and stderr.
Outcome(kind, value, out, err) ==
    IF kind = "returned"
    THEN [returned |-> value, stdout |-> out, stderr |-> err]
    ELSE [raised |-> value, stdout |-> out, stderr |-> err]

\* validate_nodl_file(path=path), given what parse_nodl(path) does
ValidateNodlFile(path, parsed) ==
    IF "raised" \in DOMAIN parsed
    THEN IF CatchesInvalidDocument(parsed.raised)
         THEN Outcome("returned", FALSE, <<>>,
                      <<[text |-> "Validation failed", path |-> path],
                        [text |-> parsed.raised, path |-> path]>>)
         ELSE Outcome("raised", parsed.raised, <<>>, <<>>)
    ELSE Outcome("returned", TRUE, <<>>, <<>>)

\* The names of a list of paths: [path.name for path in paths]
ShortPaths(ps) == {PathName(ps[k]) : k \in DOMAIN ps}

\* The first file name given that the package does not have, if any.
MissingNames(a, ps) == {k \in DOMAIN a.file : a.file[k] \notin ShortPaths(ps)}

\* [path for path in paths if path.name in args.file]
SelectPaths(a, ps) ==
    SelectSeq(ps, LAMBDA path : \E k \in DOMAIN a.file : a.file[k] = PathName(path))

\* ValidateVerb.main: for path in paths: ..., from the k-th path on
RECURSIVE ValidateLoop(_, _, _, _, _)
ValidateLoop(ps, k, po, out, err) ==
    IF k > Len(ps)
    THEN Outcome("returned", 0, Append(out, [text |-> "All files validated", path |-> ""]), err)
    ELSE LET validating == Append(out, [text |-> "Validating", path |-> PathName(ps[k])])
             valid == ValidateNodlFile(ps[k], po[ps[k]])
         IN  IF "raised" \in DOMAIN valid
             THEN Outcome("raised", valid.raised, validating, err)
             ELSE IF ~valid.returned
             THEN Outcome("returned", 1, validating, err \o valid.stderr)
             ELSE ValidateLoop(ps, k + 1, po,
                               Append(validating, [text |-> "Success", path |-> ""]), err)

\* ValidateVerb.main.  args.file is empty when --file was not given.
ValidateMainOf(a, sh, po) ==
    IF "raised" \in DOMAIN sh
    THEN Outcome("returned", 1, <<>>, <<[text |-> sh.raised.exc, path |-> ""]>>)
    ELSE IF a.file # <<>> /\ MissingNames(a, sh.returned) # {}
    THEN Outcome("returned", 1, <<>>, <<[text |-> "not found", path |-> ""]>>)
    ELSE IF a.file # <<>>
    THEN ValidateLoop(SelectPaths(a, sh.returned), 1, po, <<>>, <<>>)
    ELSE ValidateLoop(sh.returned, 1, po, <<>>, <<>>)

\* The paths, among ps, whose parse raises.
FailingAt(ps, po) == {k \in DOMAIN ps : "raised" \in DOMAIN po[ps[k]]}

\* What the files that parse declare.
ParsedFiles(po) ==
    [path \in DOMAIN po |->
        IF "raised" \in DOMAIN po[path] THEN <<>> ELSE po[path].returned]

\* show_nodl_parsed(paths=ps), given what parse_nodl does with each file:
\* the parse of the first file that fails ends the call, with False when it
\* raises InvalidNoDLDocumentError and with the exception otherwise.
ShowNodlParsedOf(ps, po) ==
    IF FailingAt(ps, po) = {} THEN ShowNodlParsed(ps, ParsedFiles(po))
    ELSE LET first == CHOOSE k \in FailingAt(ps, po) : \A q \in FailingAt(ps, po) : k <= q
             exc == po[ps[first]].raised
         IN  IF CatchesInvalidDocument(exc)
             THEN [StartFrame(ps, ParsedFiles(po)) EXCEPT
                      !.pc = "done", !.ret = [returned |-> FALSE]]
             ELSE [StartFrame(ps, ParsedFiles(po)) EXCEPT
                      !.pc = "done", !.ret = [raised |-> exc]]

\* show_nodl_raw(paths=ps): the name and the text of each file
ShowNodlRaw(ps) == [k \in DOMAIN ps |-> [name |-> PathName(ps[k]), text |-> ps[k]]]

\* ShowVerb.main.  args.file is empty when --file was not given.
ShowMainOf(a, sh, po) ==
    IF "raised" \in DOMAIN sh
    THEN Outcome("returned", 1, <<>>, <<[text |-> sh.raised.exc, path |-> ""]>>)
    ELSE IF a.file = <<>>
    THEN Outcome("returned", 0, <<>>, <<>>)
    ELSE IF MissingNames(a, sh.returned) # {}
    THEN Outcome("returned", 1, <<>>, <<[text |-> "not found", path |-> ""]>>)
    ELSE IF a.raw
    THEN Outcome("returned", 0, ShowNodlRaw(SelectPaths(a, sh.returned)), <<>>)
    ELSE LET shown == ShowNodlParsedOf(SelectPaths(a, sh.returned), po)
         IN  IF "raised" \in DOMAIN shown.ret
             THEN IF IsSubclass(shown.ret.raised, "FailedMergeError")
                  THEN Outcome("returned", 1, shown.stdout, shown.stderr)
                  ELSE Outcome("raised", shown.ret.raised, shown.stdout, shown.stderr)
             ELSE Outcome("returned", 0, shown.stdout, shown.stderr)

(***************************************************************************)
(* The command lines and packages given to the verbs.                      *)
(***************************************************************************)
MaxFileArgs == 2

FileArgNames == {"a.nodl.xml", "b.nodl.xml", "zz.nodl.xml"}

\* --all and --file exclude each other and one of them is required.
ArgsPool ==
    {[file |-> file, all |-> file = <<>>, raw |-> raw] :
        file \in UNION {[1..n -> FileArgNames] : n \in 0..MaxFileArgs},
        raw \in BOOLEAN}

\* What get_nodl_files_from_package_share does: the package is unknown, has
\* no descriptor file, or has the sorted, non-empty list of its files.
SharePool ==
    {[raised |-> PackageNotFoundError("pkg")],
     [raised |-> NoNoDLFilesError("pkg")],
     [returned |-> <<"a">>],
     [returned |-> <<"a", "b">>]}

ParseErrors == {"InvalidNoDLDocumentError", "UnsupportedInterfaceError", "InvalidElementError"}

VerbDocs ==
    {<<Node("X", <<>>, <<>>, <<>>, <<Topic("bar", "T1", TRUE, FALSE, "SYSTEM_DEFAULT")>>)>>,
     <<Node("X", <<>>, <<>>, <<>>, <<Topic("bar", "T1", TRUE, FALSE, "SENSOR_DATA")>>)>>}

ParseOutcomes == {[returned |-> doc] : doc \in VerbDocs} \cup {[raised |-> e] : e \in ParseErrors}

InitVerb ==
    /\ IdleEq
    /\ IdleIadd
    /\ IdleMerge
    /\ IdleVersion
    /\ IdleNode
    /\ IdleIndex
    /\ args \in ArgsPool
    /\ share \in SharePool
    /\ parse_of \in [{"a", "b"} -> ParseOutcomes]
    /\ validate_res = None
    /\ show_res = None

\* ValidateVerb.main(args=args)
ValidateVerbMain ==
    /\ args # None
    /\ validate_res = None
    /\ validate_res' = ValidateMainOf(args, share, parse_of)
    /\ UNCHANGED <<args, share, parse_of, show_res>>
    /\ UNCHANGED <<varsIadd, varsMerge, varsVersion, varsNode, varsIndex, varsEq>>

\* ShowVerb.main(args=args)
ShowVerbMain ==
    /\ args # None
    /\ show_res = None
    /\ show_res' = ShowMainOf(args, share, parse_of)
    /\ UNCHANGED <<args, share, parse_of, validate_res>>
    /\ UNCHANGED <<varsIadd, varsMerge, varsVersion, varsNode, varsIndex, varsEq>>

NextVerb == ValidateVerbMain \/ ShowVerbMain

SpecVerb == InitVerb /\ [][NextVerb]_vars

\* The package has files and every file name given is one of them.
SelectionOk ==
    /\ "returned" \in DOMAIN share
    /\ MissingNames(args, share.returned) = {}

\* The files that the command line selects.
Selected ==
    IF args.file = <<>>
    THEN {share.returned[k] : k \in DOMAIN share.returned}
    ELSE {share.returned[k] : k \in {q \in DOMAIN share.returned :
                                       \E n \in DOMAIN args.file :
                                           args.file[n] = PathName(share.returned[q])}}

\* C11: the validate verb returns 0 exactly when every selected file parses
\* and 1 when a selected file fails with a fatal parse error, whichever it
\* is; it never ends in an uncaught exception.
C11_ValidateExitCode ==
    (validate_res # None /\ SelectionOk)
    => /\ "returned" \in DOMAIN validate_res
       /\ ((validate_res.returned = 0)
            <=> (\A path \in Selected : "returned" \in DOMAIN parse_of[path]))
       /\ ((\E path \in Selected : "raised" \in DOMAIN parse_of[path])
            => (validate_res.returned = 1))

\* Parsing or merging the selected files fails: a file is an invalid
\* document, or two files hold conflicting declarations of a component.
SelectedFail ==
    \/ \E path \in Selected :
          /\ "raised" \in DOMAIN parse_of[path]
          /\ parse_of[path].raised = "InvalidNoDLDocumentError"
    \/ \E p, q \in Selected :
          /\ "returned" \in DOMAIN parse_of[p]
          /\ "returned" \in DOMAIN parse_of[q]
          /\ ConflictingNames(parse_of[p].returned, parse_of[q].returned) # {}

\* C12: when the show verb displays the parsed content of the files given
\* and parsing or merging them fails it returns 1; it returns 0 only when
\* the parsed content was shown.
C12_ShowExitCode ==
    (show_res # None /\ SelectionOk /\ args.file # <<>> /\ ~args.raw)
    => /\ (SelectedFail
            => ("returned" \in DOMAIN show_res /\ show_res.returned = 1))
       /\ (("returned" \in DOMAIN show_res /\ show_res.returned = 0)
            => (~SelectedFail /\ show_res.stdout # <<>>))

\* C14: the show verb with --all, for a package that has descriptor files,
\* displays the combined content of all of them before it returns 0.
C14_ShowAllDisplays ==
    (show_res # None /\ "returned" \in DOMAIN share /\ args.all)
    => (("returned" \in DOMAIN show_res /\ show_res.returned = 0)
        => show_res.stdout # <<>>)

(***************************************************************************)
(* A merge that fails (SpecIadd) and a fold over nothing (SpecMerge).      *)
(***************************************************************************)
\* C21: a failed merge is atomic: when self += other raises
\* NodeMergeConflictError, each of the four mappings of self holds the
\* names and values it held before the call; no entry of other stays
\* inserted.
C21_FailedMergeIsAtomic ==
    iadd_pc = "raised"
    => \A t \in DOMAIN NodeMaps(self) :
           /\ Keys(self[t]) = Keys(self0[t])
           /\ \A n \in Keys(self0[t]) : Get(self[t], n) = Get(self0[t], n)

\* The components that the listed files declare, each by file and position.
ListedComponents == UNION {{<<paths[k], q>> : q \in DOMAIN files[paths[k]]} : k \in DOMAIN paths}

\* C23: show_nodl_parsed returns True, and raises nothing, when the files
\* given parse and hold no component between them, and when the path list
\* is empty.
C23_NothingToShowReturnsTrue ==
    (pc = "done" /\ ListedComponents = {})
    => ret = [returned |-> TRUE]

(***************************************************************************)
(* NoDLInterface.__eq__ on a pair of entries.  The operands are built with *)
(* the constructors of the four entry classes, every field taking two      *)
(* values, so that entries of two classes can agree on every field they    *)
(* share and entries of one class can differ in any single field.  The     *)
(* classes are siblings, so a == b is entry_a.__eq__(entry_b) and b == a   *)
(* is entry_b.__eq__(entry_a).                                             *)
(***************************************************************************)
EqNames == {"foo", "bar"}

EqTypes == {"T1", "T2"}

EqQos == {"SYSTEM_DEFAULT", "SENSOR_DATA"}

EntryPool ==
    {Action(name, value_type, server, client, qos) :
        name \in EqNames, value_type \in EqTypes, server \in BOOLEAN,
        client \in BOOLEAN, qos \in EqQos}
    \cup {Service(name, value_type, server, client, qos) :
        name \in EqNames, value_type \in EqTypes, server \in BOOLEAN,
        client \in BOOLEAN, qos \in EqQos}
    \cup {Topic(name, value_type, publisher, subscription, qos) :
        name \in EqNames, value_type \in EqTypes, publisher \in BOOLEAN,
        subscription \in BOOLEAN, qos \in EqQos}
    \cup {Parameter(name, value_type) : name \in EqNames, value_type \in EqTypes}

InitEq ==
    /\ IdleIadd
    /\ IdleMerge
    /\ IdleVersion
    /\ IdleNode
    /\ IdleIndex
    /\ IdleVerb
    /\ entry_a \in EntryPool
    /\ entry_b \in EntryPool
    /\ a_eq_b = None
    /\ b_eq_a = None

\* entry_a == entry_b
EqForward ==
    /\ entry_a # None
    /\ a_eq_b = None
    /\ a_eq_b' = [returned |-> InterfaceEq(entry_a, entry_b)]
    /\ UNCHANGED <<entry_a, entry_b, b_eq_a>>
    /\ UNCHANGED <<varsIadd, varsMerge, varsVersion, varsNode, varsIndex, varsVerb>>

\* entry_b == entry_a
EqBackward ==
    /\ entry_a # None
    /\ b_eq_a = None
    /\ b_eq_a' = [returned |-> InterfaceEq(entry_b, entry_a)]
    /\ UNCHANGED <<entry_a, entry_b, a_eq_b>>
    /\ UNCHANGED <<varsIadd, varsMerge, varsVersion, varsNode, varsIndex, varsVerb>>

NextEq == EqForward \/ EqBackward

SpecEq == InitEq /\ [][NextEq]_vars

\* The two entries are of the same variant.
SameVariant(a, b) == a.cls = b.cls

\* The two entries have the same fields and agree on each of them.
AgreeOnEveryField(a, b) ==
    /\ DOMAIN a.dict = DOMAIN b.dict
    /\ \A field \in DOMAIN a.dict : a.dict[field] = b.dict[field]

\* C22: two entries are equal exactly when they are of the same variant and
\* agree on every field (name, type, role flags, qos); entries of two
\* variants are never equal, and a == b has the value of b == a.
C22_EqualityIsStructuralPerVariant ==
    /\ a_eq_b # None
       => (a_eq_b.returned
           <=> (SameVariant(entry_a, entry_b) /\ AgreeOnEveryField(entry_a, entry_b)))
    /\ b_eq_a # None
       => (b_eq_a.returned
           <=> (SameVariant(entry_a, entry_b) /\ AgreeOnEveryField(entry_a, entry_b)))
    /\ (a_eq_b # None /\ b_eq_a # None) => a_eq_b = b_eq_a

\* C22 witness: an Action and a Service that agree on name, type, both role
\* flags and qos were compared in both directions and found unequal.
C22_Witness ==
    /\ entry_a.cls = "Action"
    /\ entry_b.cls = "Service"
    /\ entry_a.dict = entry_b.dict
    /\ a_eq_b = [returned |-> FALSE]
    /\ b_eq_a = [returned |-> FALSE]

====
